---- MODULE Spec2Model ----
(***************************************************************************)
(* Model of the Bind ERP -> Smartsheet middleware.                         *)
(*                                                                         *)
(*   SpecRequest : BindClient._request (src/bind_client.py), the retry     *)
(*                 loop around session.request.  One step of the model is  *)
(*                 one iteration of the loop; an "HTTP call" is one call   *)
(*                 of session.request.  The server's answer to each call   *)
(*                 is chosen freely among a status with a body and an      *)
(*                 optional Retry-After header (delay-seconds), a Timeout, *)
(*                 or another RequestException.                            *)
(*   SpecSync    : the three sync runs, sync_invoices_from_bind and        *)
(*                 sync_inventory (src/business_logic.py) and              *)
(*                 BindCatalogSync.sync_catalog                            *)
(*                 (src/sync_bind_catalogs.py), against one target sheet.  *)
(*                 One step is one external call (source fetch, sheet      *)
(*                 read, row write), each of which may raise, or the       *)
(*                 reconciliation loop.  The catalog modelled is one       *)
(*                 without filter_by_date.                                 *)
(*   SpecPage    : BindClient._paginated_get (src/bind_client.py), the     *)
(*                 $skip/$top loop over an endpoint that serves a finite   *)
(*                 record list by offset, and the caller that receives     *)
(*                 the returned list.  One step is one iteration of the    *)
(*                 loop, that is one call of _request, which returns a     *)
(*                 page or raises.                                         *)
(*   SpecOverlap : two runs of sync_inventory started by main.py (the      *)
(*                 interval job and BackgroundTasks of the manual          *)
(*                 endpoints, each in a thread of the default executor)    *)
(*                 against the same sheet.                                 *)
(***************************************************************************)
EXTENDS Integers, Naturals, Sequences, FiniteSets, TLC

(***************************************************************************)
(* Bounds of the model.                                                    *)
(***************************************************************************)
MaxRetriesBound == 3
MaxInitialBackoff == 2
MaxRequests == 2
MaxBody == 2
MaxSrc == 2
MaxRuns == 2
MaxRecords == 5
MaxPageSize == 3
MaxLimit == 4
MaxOverlapSrc == 2
MaxProducts == 3
MaxHooks == 2
MaxEvents == 2
MaxExtraEntries == 3

(***************************************************************************)
(* Program constants.                                                      *)
(***************************************************************************)
RawLimit == 500
BatchSize == 100
MAX_HISTORY == 100

VARIABLES
    max_retries,      \* self.max_retries (settings.BIND_MAX_RETRIES)
    initial_backoff,  \* self.initial_backoff (settings.BIND_INITIAL_BACKOFF)
    pc,               \* position of _request: "idle", "attempt", "done"
    attempt,          \* loop variable of `for attempt in range(max_retries + 1)`
    backoff,          \* local variable backoff
    sleeps,           \* durations passed to time.sleep by the current request
    calls,            \* session.request calls made by the current request
    fails,            \* transient failures answered to the current request
    response,         \* answer of the last session.request call
    result,           \* what the current request returned or raised
    reqNo,            \* requests started on this client
    leftBackoff,      \* value of backoff when the previous request ended
    method,           \* argument method of the current request
    sync,             \* which sync function runs: a member of SyncKinds
    client,           \* the bind_client argument: "BindClient" or "injected"
    source,           \* the records the source serves
    sheet,            \* rows of the target sheet, in scan order
    nextRowId,        \* next row id the target assigns
    runNo,            \* runs started
    spc,              \* position of the current run
    records,          \* invoices / products / bind_data of the run
    failed,           \* invoices whose detail request raised
    existing_map,     \* existing_map / existing_rows of the run
    indexOk,          \* whether the scan that built existing_map succeeded
    ops,              \* operations emitted by the run, in emission order
    writes,           \* row-write calls of the run: [op, from, size, ok]
    report,           \* the result dict of the run
    prev,             \* what the previous run did
    log,              \* source requests and sheet reads of the run, in order
    page_size,        \* argument page_size of _paginated_get
    max_records,      \* argument max_records (0 is None)
    params,           \* argument params: the keys of the base query
    endpoint,         \* what the endpoint serves: [shape, n]
    ppc,              \* position of _paginated_get
    skip,             \* local variable skip
    all_records,      \* local variable all_records
    pageReqs,         \* page requests issued: [skip, top]
    lastPage,         \* len(records) of the last page received
    stop,             \* which `break` ended the loop
    consumed,         \* records the caller has consumed
    opc,              \* position of each overlapping run
    omap,             \* existing_map of each overlapping run
    oops,             \* operations of each overlapping run
    oreport,          \* result dict of each overlapping run
    olog,             \* per overlapping run: [indexOk, writesOk]
    webhook_secret,   \* settings.SMARTSHEET_WEBHOOK_SECRET ("" when not set)
    estado,           \* cell Estado of the row the webhook events are about
    tasks,            \* background tasks added by the webhook: [hook, pos]
    invoices,         \* invoices created in Bind for the row
    hookLog,          \* webhook requests handled: [sig, body, status, scheduled]
    job_history,      \* the list job_history, newest entry first
    historyCalls      \* calls of add_to_history made

reqVars == <<max_retries, initial_backoff, pc, attempt, backoff, sleeps, calls,
             fails, response, result, reqNo, leftBackoff, method>>

syncVars == <<sync, client, source, sheet, nextRowId, runNo, spc, records,
              failed, existing_map, indexOk, ops, writes, report, prev, log>>

pageVars == <<page_size, max_records, params, endpoint, ppc, skip, all_records,
              pageReqs, lastPage, stop, consumed>>

overlapVars == <<opc, omap, oops, oreport, olog>>

hookVars == <<webhook_secret, estado, tasks, invoices, hookLog>>

histVars == <<job_history, historyCalls>>

vars == <<max_retries, initial_backoff, pc, attempt, backoff, sleeps, calls,
          fails, response, result, reqNo, leftBackoff, method,
          sync, client, source, sheet, nextRowId, runNo, spc, records,
          failed, existing_map, indexOk, ops, writes, report, prev, log,
          page_size, max_records, params, endpoint, ppc, skip, all_records,
          pageReqs, lastPage, stop, consumed, opc, omap, oops, oreport, olog,
          webhook_secret, estado, tasks, invoices, hookLog,
          job_history, historyCalls>>

Min(a, b) == IF a < b THEN a ELSE b

(***************************************************************************)
(* Answers of session.request.                                             *)
(*   kind    : "response", "Timeout" or "RequestException"                 *)
(*   status  : HTTP status (0 when no response arrived)                    *)
(*   content : "object" (a JSON body), "empty" (no content) or "text"      *)
(*             (content that is not JSON)                                  *)
(*   body    : identity of the body                                        *)
(*   len     : length of response.text                                     *)
(*   ra      : Retry-After header: -1 when absent, else its delay-seconds  *)
(***************************************************************************)
Bodies == 1..MaxBody
TextLens == {1, RawLimit, RawLimit + 1}
RetryAfterValues == {0, 7}
NoHeader == -1

NoResponse ==
    [kind |-> "none", status |-> 0, content |-> "empty", body |-> 0,
     len |-> 0, ra |-> NoHeader]

Resp(s, c, b, l, r) ==
    [kind |-> "response", status |-> s, content |-> c, body |-> b,
     len |-> l, ra |-> r]

Exc(k) ==
    [kind |-> k, status |-> 0, content |-> "empty", body |-> 0,
     len |-> 0, ra |-> NoHeader]

SuccessResponses ==
    {Resp(s, "object", b, 2, NoHeader) : s \in {200, 201}, b \in Bodies}
    \cup {Resp(200, "empty", 0, 0, NoHeader), Resp(204, "empty", 0, 0, NoHeader)}

RateLimitResponses ==
    {Resp(429, "object", 1, 2, r) : r \in {NoHeader} \cup RetryAfterValues}

ServerErrorResponses ==
    {Resp(s, "object", b, 2, NoHeader) : s \in {500, 503}, b \in Bodies}
    \cup {Resp(500, "text", 1, l, NoHeader) : l \in TextLens}

ClientErrorResponses ==
    {Resp(s, "object", b, 2, NoHeader) : s \in {400, 404}, b \in Bodies}
    \cup {Resp(404, "text", 1, l, NoHeader) : l \in TextLens}
    \cup {Resp(404, "empty", 0, 0, NoHeader)}

Answers ==
    SuccessResponses \cup RateLimitResponses \cup ServerErrorResponses
    \cup ClientErrorResponses \cup {Exc("Timeout"), Exc("RequestException")}

(***************************************************************************)
(* What _request returns or raises.                                        *)
(*   kind   : "none", "return" or "raise"                                  *)
(*   exc    : "" or the reason of the BindAPIError                         *)
(*   status : status_code of the error (0 for None)                        *)
(*   body   : returned JSON value, or response_body of the error           *)
(*            (0 is the empty dict / None)                                 *)
(*   raw    : length of the text stored under "raw" (-1 when not stored)   *)
(***************************************************************************)
NoResult == [kind |-> "none", exc |-> "", status |-> 0, body |-> 0, raw |-> -1]

Return(b) ==
    [kind |-> "return", exc |-> "", status |-> 0, body |-> b, raw |-> -1]

Raise(e, s, b, r) ==
    [kind |-> "raise", exc |-> e, status |-> s, body |-> b, raw |-> r]

\* bind_client.py:118
IsSuccess(r) == r.kind = "response" /\ r.status \in {200, 201, 204}

\* bind_client.py:119-121
SuccessValue(r) ==
    IF r.status = 204 \/ r.content = "empty" THEN Return(0) ELSE Return(r.body)

WaitTimeIgnoringHeader(r, b) == b

\* bind_client.py:125-126
WaitTime(r, b) == IF r.ra # NoHeader THEN r.ra ELSE b

NextBackoffLinear(b) == b + initial_backoff

\* bind_client.py:134,151,174,182
NextBackoff(b) == b * 2

MayRetryOffByOne(a) == a + 1 < max_retries

MayRetryAlways(a) == a <= max_retries

\* bind_client.py:132,149,172,180
MayRetry(a) == a < max_retries

RawTextUntruncated(r) == r.len

\* bind_client.py:159
RawText(r) == Min(r.len, RawLimit)

ClientErrorDropsBody(r) == Raise("status", r.status, 0, -1)

\* bind_client.py:155-168
ClientError(r) ==
    IF r.content = "object"
    THEN Raise("status", r.status, r.body, -1)
    ELSE Raise("status", r.status, 0, RawText(r))

StartBackoffCarried == IF reqNo = 0 THEN initial_backoff ELSE leftBackoff

\* bind_client.py:103
StartBackoff == initial_backoff

IsTransient(r) ==
    \/ r.kind \in {"Timeout", "RequestException"}
    \/ r.kind = "response" /\ (r.status = 429 \/ r.status >= 500)

(***************************************************************************)
(* Values of record fields and sheet cells.                                *)
(*   t : "missing" (no such field), "none" (null), "str", "int", or        *)
(*       "numstr" (the string that is the decimal numeral of v)            *)
(*   v : the integer, or the identity of the string (0 is "")              *)
(*   i : index appended as "-<i>" to the string (-1 when none)             *)
(***************************************************************************)
Val(t, v, i) == [t |-> t, v |-> v, i |-> i]
Missing == Val("missing", 0, -1)
None == Val("none", 0, -1)
EmptyStr == Val("str", 0, -1)
NoneStr == Val("str", 99, -1)
StrA == Val("str", 1, -1)
StrB == Val("str", 2, -1)
IntVal(n) == Val("int", n, -1)

\* Python truthiness of a value (`if not uuid`, `if cell.value`, `x or y`).
Truthy(x) ==
    CASE x.t = "missing" -> FALSE
      [] x.t = "none" -> FALSE
      [] x.t = "str" -> x.v # 0 \/ x.i # -1
      [] x.t = "numstr" -> TRUE
      [] x.t = "int" -> x.v # 0

\* str(x)
Str(x) ==
    CASE x.t = "none" -> NoneStr
      [] x.t = "int" -> Val("numstr", x.v, -1)
      [] OTHER -> x

\* dict.get(field, "")
GetOrEmpty(x) == IF x.t = "missing" THEN EmptyStr ELSE x

\* f"{uuid}-{idx}"
WithIndex(x, idx) == [Str(x) EXCEPT !.i = idx]

(***************************************************************************)
(* Source records: key is the key field of the record (UUID of an invoice, *)
(* ID of a product or of a catalog record), nprod the number of Products   *)
(* in the detail of an invoice.                                            *)
(***************************************************************************)
Rec(k, n) == [key |-> k, nprod |-> n]

SyncKinds == {"invoices", "inventory", "catalog"}

\* business_logic.py:804-808 and 837-838: the products of an invoice, [] when
\* the detail request raised; an empty list becomes one placeholder product.
ProductCount(rec, detailOk) ==
    LET n == IF detailOk THEN rec.nprod ELSE 0
    IN  IF n = 0 THEN 1 ELSE n

InvoiceRowKeyAlwaysIndexed(uuid, idx, n) == WithIndex(uuid, idx)

\* business_logic.py:843
InvoiceRowKey(uuid, idx, n) == IF n > 1 THEN WithIndex(uuid, idx) ELSE uuid

\* The key field as the loop reads it, before the emptiness test.
\* business_logic.py:797, business_logic.py:445, sync_bind_catalogs.py:489
KeyField(kind, rec) ==
    CASE kind = "invoices" -> GetOrEmpty(rec.key)
      [] kind = "inventory" ->
            Str(IF Truthy(rec.key) THEN rec.key ELSE EmptyStr)
      [] kind = "catalog" -> Str(GetOrEmpty(rec.key))

\* business_logic.py:798, business_logic.py:446, sync_bind_catalogs.py:490
Skipped(kind, rec) == ~Truthy(KeyField(kind, rec))

\* The value written to the key column of the row.
\* business_logic.py:892, business_logic.py:451 and 469,
\* sync_bind_catalogs.py:497-506
KeyCell(kind, rec, rowKey) ==
    CASE kind = "invoices" -> Str(rowKey)
      [] kind = "inventory" -> rowKey
      [] kind = "catalog" ->
            IF rec.key.t \in {"missing", "none"} THEN EmptyStr ELSE rec.key

IndexKeyRaw(kind, cell) == cell

\* The key under which a scanned cell enters the index.
\* business_logic.py:709, business_logic.py:368, sync_bind_catalogs.py:383
IndexKey(kind, cell) == IF kind = "catalog" THEN cell ELSE Str(cell)

IndexedRows(kind, rows) == {j \in 1..Len(rows) : Truthy(rows[j].key)}

MaxOf(S) == CHOOSE m \in S : \A n \in S : n <= m

MinOf(S) == CHOOSE m \in S : \A n \in S : m <= n

BuildIndexFirstWins(kind, rows) ==
    LET idx == IndexedRows(kind, rows)
        keys == {IndexKey(kind, rows[j].key) : j \in idx}
    IN  [k \in keys |->
            rows[MinOf({j \in idx : IndexKey(kind, rows[j].key) = k})].id]

\* business_logic.py:705-711, business_logic.py:364-368,
\* sync_bind_catalogs.py:375-385: scan of the sheet, last row wins.
BuildIndex(kind, rows) ==
    LET idx == IndexedRows(kind, rows)
        keys == {IndexKey(kind, rows[j].key) : j \in idx}
    IN  [k \in keys |->
            rows[MaxOf({j \in idx : IndexKey(kind, rows[j].key) = k})].id]

EmptyIndex == [k \in {} |-> 0]

(***************************************************************************)
(* Reconciliation.  An operation is                                        *)
(*   [op, src, sub, key, cell, id] : "insert" or "update", the position of *)
(*   the source record and of the product inside it, the business key, the *)
(*   value written to the key column, the target row id (0 for inserts).   *)
(***************************************************************************)
Op(o, s, u, k, c, r) ==
    [op |-> o, src |-> s, sub |-> u, key |-> k, cell |-> c, id |-> r]

DecideInsertOnly(kind, index, s, u, rec, rowKey) ==
    Op("insert", s, u, rowKey, KeyCell(kind, rec, rowKey), 0)

DecideWrongRow(kind, index, s, u, rec, rowKey) ==
    IF rowKey \in DOMAIN index
    THEN Op("update", s, u, rowKey, KeyCell(kind, rec, rowKey),
            MaxOf({index[k] : k \in DOMAIN index}))
    ELSE Op("insert", s, u, rowKey, KeyCell(kind, rec, rowKey), 0)

DecideInsertOnce(kind, index, s, u, rec, rowKey) ==
    IF rowKey \in DOMAIN index
    THEN Op("update", s, u, rowKey, KeyCell(kind, rec, rowKey), index[rowKey])
    ELSE IF s = 1
    THEN Op("insert", s, u, rowKey, KeyCell(kind, rec, rowKey), 0)
    ELSE Op("update", s, u, rowKey, KeyCell(kind, rec, rowKey), 0)

\* business_logic.py:895-906, business_logic.py:472-483,
\* sync_bind_catalogs.py:512-523
Decide(kind, index, s, u, rec, rowKey) ==
    IF rowKey \in DOMAIN index
    THEN Op("update", s, u, rowKey, KeyCell(kind, rec, rowKey), index[rowKey])
    ELSE Op("insert", s, u, rowKey, KeyCell(kind, rec, rowKey), 0)

\* The operations of one source record, in the order the loop emits them.
\* business_logic.py:796-906, business_logic.py:443-483,
\* sync_bind_catalogs.py:488-523
RecordOps(kind, index, s, rec, detailOk) ==
    IF Skipped(kind, rec) THEN <<>>
    ELSE IF kind = "invoices"
    THEN LET n == ProductCount(rec, detailOk)
         IN  [u \in 1..n |->
                Decide(kind, index, s, u - 1, rec,
                       InvoiceRowKey(KeyField(kind, rec), u - 1, n))]
    ELSE <<Decide(kind, index, s, 0, rec, KeyField(kind, rec))>>

RECURSIVE ReconcileRange(_, _, _, _, _, _)
\* The operations of records lo..hi, in source-record order.
ReconcileRange(kind, index, recs, fs, lo, hi) ==
    IF lo > hi THEN <<>>
    ELSE IF lo = hi THEN RecordOps(kind, index, lo, recs[lo], lo \notin fs)
    ELSE LET mid == (lo + hi) \div 2
         IN  ReconcileRange(kind, index, recs, fs, lo, mid)
             \o ReconcileRange(kind, index, recs, fs, mid + 1, hi)

\* All operations of the run, in source-record order.
Reconcile(kind, index, recs, fs) ==
    ReconcileRange(kind, index, recs, fs, 1, Len(recs))

\* rows_to_add / rows_to_update: the partition by kind, order preserved.
OpsOfKind(os, o) == SelectSeq(os, LAMBDA x : x.op = o)

\* range(0, len(rows), batch_size): number of chunks.
ChunkCount(n) == (n + BatchSize - 1) \div BatchSize

ChunkUnbounded(rows, c) == SubSeq(rows, (c - 1) * BatchSize + 1, Len(rows))

\* rows[i : i + batch_size] for the c-th chunk (c = 1, 2, ...).
Chunk(rows, c) ==
    SubSeq(rows, (c - 1) * BatchSize + 1, Min(c * BatchSize, Len(rows)))

(***************************************************************************)
(* The report of a run (the result dict).  counts is FALSE for the failure *)
(* report of sync_catalog, which has no inserted/updated entries.          *)
(***************************************************************************)
NewReport ==
    [success |-> FALSE, total |-> 0, inserted |-> 0, updated |-> 0,
     unchanged |-> 0, errors |-> <<>>, counts |-> TRUE]

\* What the previous run did: whether there was one, whether it fetched the
\* source records, reported success and had every write call succeed.
NoPrev == [ran |-> FALSE, fetched |-> FALSE, success |-> FALSE,
           writesOk |-> FALSE]

\* The sync variables of a client on which no sync runs.
SyncIdle ==
    /\ sync = "invoices"
    /\ client = "BindClient"
    /\ source = <<>>
    /\ sheet = <<>>
    /\ nextRowId = 1
    /\ runNo = 0
    /\ spc = "idle"
    /\ records = <<>>
    /\ failed = {}
    /\ existing_map = EmptyIndex
    /\ indexOk = FALSE
    /\ ops = <<>>
    /\ writes = <<>>
    /\ report = NewReport
    /\ prev = NoPrev
    /\ log = <<>>

\* The request variables of a client that issues no request.
RequestIdle ==
    /\ max_retries = 0
    /\ initial_backoff = 1
    /\ pc = "idle"
    /\ attempt = 0
    /\ backoff = 0
    /\ sleeps = <<>>
    /\ calls = 0
    /\ fails = 0
    /\ response = NoResponse
    /\ result = NoResult
    /\ reqNo = 0
    /\ leftBackoff = 0
    /\ method = "GET"

\* The variables of a paginator that is not called.
PageIdle ==
    /\ page_size = 1
    /\ max_records = 0
    /\ params = {}
    /\ endpoint = [shape |-> "list", n |-> 0]
    /\ ppc = "idle"
    /\ skip = 0
    /\ all_records = <<>>
    /\ pageReqs = <<>>
    /\ lastPage = 0
    /\ stop = ""
    /\ consumed = 0

\* The variables of a webhook endpoint that receives nothing.
HookIdle ==
    /\ webhook_secret = ""
    /\ estado = "Facturado"
    /\ tasks = <<>>
    /\ invoices = 0
    /\ hookLog = <<>>

\* The variables of a job history nobody writes to.
HistoryIdle ==
    /\ job_history = <<>>
    /\ historyCalls = 0

Runs == {1, 2}

\* The variables of the overlapping runs when none is started.
OverlapIdle ==
    /\ opc = [p \in Runs |-> "idle"]
    /\ omap = [p \in Runs |-> EmptyIndex]
    /\ oops = [p \in Runs |-> <<>>]
    /\ oreport = [p \in Runs |-> NewReport]
    /\ olog = [p \in Runs |-> [indexOk |-> FALSE, writesOk |-> TRUE]]

Row(r, k) == [id |-> r, key |-> k]

SkippedKeys == {Missing, None, EmptyStr}

\* Small records: an invoice has a UUID string (or none) and 0 to
\* MaxProducts products; a product or catalog record has a string or integer ID (or none).
SmallRecs(kind) ==
    IF kind = "invoices"
    THEN {Rec(k, 1) : k \in SkippedKeys}
         \cup {Rec(StrA, n) : n \in 0..MaxProducts} \cup {Rec(StrB, 1)}
    ELSE {Rec(k, 1) : k \in SkippedKeys \cup {StrA, StrB, IntVal(7)}}

SeqsUpTo(S, n) == UNION {[1..m -> S] : m \in 0..n}

LargeSizes == {BatchSize + BatchSize \div 2, 2 * BatchSize + 1}

LargeSource(n) == [j \in 1..n |-> Rec(Val("str", j, -1), 1)]

Sources(kind) ==
    SeqsUpTo(SmallRecs(kind), MaxSrc) \cup {LargeSource(n) : n \in LargeSizes}

InitSheets == {<<>>, <<Row(1, StrA), Row(2, EmptyStr), Row(3, StrA)>>}

InitSync ==
    /\ RequestIdle
    /\ PageIdle
    /\ HookIdle
    /\ HistoryIdle
    /\ OverlapIdle
    /\ sync \in SyncKinds
    /\ client \in IF sync = "invoices" THEN {"BindClient", "injected"}
                  ELSE {"BindClient"}
    /\ source \in Sources(sync)
    /\ sheet \in IF Len(source) <= BatchSize THEN InitSheets ELSE {<<>>}
    /\ nextRowId = Len(sheet) + 1
    /\ runNo = 0
    /\ spc = "idle"
    /\ records = <<>>
    /\ failed = {}
    /\ existing_map = EmptyIndex
    /\ indexOk = FALSE
    /\ ops = <<>>
    /\ writes = <<>>
    /\ report = NewReport
    /\ prev = NoPrev
    /\ log = <<>>

AllOk(ws) == \A j \in 1..Len(ws) : ws[j].ok

\* business_logic.py:741-761, business_logic.py:403-418,
\* sync_bind_catalogs.py:449-455: entry of a run.
StartRun ==
    /\ spc \in {"idle", "reported"}
    /\ runNo < MaxRuns
    /\ runNo' = runNo + 1
    /\ prev' = [ran |-> runNo > 0, fetched |-> records = source,
                success |-> report.success, writesOk |-> AllOk(writes)]
    /\ spc' = IF sync = "catalog" THEN "sheet" ELSE "fetch"
    /\ records' = <<>>
    /\ failed' = {}
    /\ existing_map' = EmptyIndex
    /\ indexOk' = FALSE
    /\ ops' = <<>>
    /\ writes' = <<>>
    /\ report' = NewReport
    /\ log' = <<>>
    /\ UNCHANGED <<sync, client, source, sheet, nextRowId>>
    /\ UNCHANGED <<reqVars, pageVars, overlapVars, hookVars, histVars>>

HandlerMissesColumns(kind, tag) ==
    IF tag = "columns" THEN "propagated" ELSE "reported"

\* Where an exception raised by the call `tag` takes the run: every external
\* call is made inside the try statement, whose `except Exception` clause
\* falls through to (or is) the return of the report.
\* business_logic.py:763 and 942-950, business_logic.py:420 and 520-528,
\* sync_bind_catalogs.py:455 and 556-558
Handler(kind, tag) == "reported"

FatalMarksSuccess(rep, kind, tag) ==
    [rep EXCEPT !.errors = Append(rep.errors, tag), !.success = TRUE]

\* The except clauses at the end of a run: the report of a run that an
\* exception ended.
\* business_logic.py:942-950, business_logic.py:520-528,
\* sync_bind_catalogs.py:556-558
Fatal(rep, kind, tag) ==
    IF kind = "catalog"
    THEN [NewReport EXCEPT !.errors = <<tag>>, !.counts = FALSE]
    ELSE [rep EXCEPT !.errors = Append(rep.errors, tag)]

\* business_logic.py:933-934, business_logic.py:514,
\* sync_bind_catalogs.py:544-554
Completed(rep, kind) ==
    [rep EXCEPT !.success = TRUE,
                !.unchanged = IF kind = "invoices"
                              THEN rep.total - rep.inserted - rep.updated
                              ELSE 0]

\* One source request or sheet read of a run: which call, for which source
\* record (0 when for none), how many operations the record loop had decided
\* when it was made, and whether it returned.
Call(c, s, n, ok) == [call |-> c, src |-> s, before |-> n, ok |-> ok]

DetailCallsUpFront(kind, recs, fs, os) ==
    IF kind # "invoices" THEN <<>>
    ELSE LET firsts == SelectSeq([j \in 1..Len(os) |-> j],
                                 LAMBDA j : os[j].sub = 0)
         IN  [i \in 1..Len(firsts) |->
                Call("detail", os[firsts[i]].src, 0,
                     os[firsts[i]].src \notin fs)]

\* business_logic.py:802-808: the detail request of every invoice that has a
\* UUID, made inside the record loop right before the rows of that invoice
\* are decided, that is before the operation of its first product; the other
\* two loops make no request.
DetailCalls(kind, recs, fs, os) ==
    IF kind # "invoices" THEN <<>>
    ELSE LET firsts == SelectSeq([j \in 1..Len(os) |-> j],
                                 LAMBDA j : os[j].sub = 0)
         IN  [i \in 1..Len(firsts) |->
                Call("detail", os[firsts[i]].src, firsts[i] - 1,
                     os[firsts[i]].src \notin fs)]

\* BindClient.get_invoices (bind_client.py:328) takes created_since only;
\* sync_invoices_from_bind passes limit and order_by as well
\* (business_logic.py:769-773).
FetchAccepted == ~(sync = "invoices" /\ client = "BindClient")

\* business_logic.py:769-781, business_logic.py:424-431,
\* sync_bind_catalogs.py:478
FetchSource ==
    /\ spc = "fetch"
    /\ \E ok \in BOOLEAN :
        /\ log' = IF FetchAccepted THEN Append(log, Call("fetch", 0, 0, ok))
                  ELSE log
        /\ IF ok /\ FetchAccepted
           THEN /\ records' = source
                /\ IF sync # "catalog" /\ Len(source) = 0
                   THEN /\ spc' = "reported"
                        /\ report' = [report EXCEPT !.success = TRUE]
                   ELSE /\ spc' = IF sync = "catalog" THEN "reconcile" ELSE "index"
                        /\ report' = [report EXCEPT !.total = Len(source)]
           ELSE /\ records' = records
                /\ spc' = Handler(sync, "fetch")
                /\ report' = Fatal(report, sync, "fetch")
    /\ UNCHANGED <<sync, client, source, sheet, nextRowId, runNo, failed,
                   existing_map, indexOk, ops, writes, prev>>
    /\ UNCHANGED <<reqVars, pageVars, overlapVars, hookVars, histVars>>

\* sync_bind_catalogs.py:457 (_get_or_create_sheet)
GetSheet ==
    /\ spc = "sheet"
    /\ \E ok \in BOOLEAN :
        /\ log' = Append(log, Call("sheet", 0, 0, ok))
        /\ IF ok
           THEN spc' = "columns" /\ report' = report
           ELSE /\ spc' = Handler(sync, "sheet")
                /\ report' = Fatal(report, sync, "sheet")
    /\ UNCHANGED <<sync, client, source, sheet, nextRowId, runNo, records,
                   failed, existing_map, indexOk, ops, writes, prev>>
    /\ UNCHANGED <<reqVars, pageVars, overlapVars, hookVars, histVars>>

\* business_logic.py:784 (get_existing_invoices_map, 689-714),
\* business_logic.py:434 (get_existing_inventory_map, 348-374),
\* sync_bind_catalogs.py:461 (_get_existing_rows, 365-385)
BuildKeyIndex ==
    /\ spc = "index"
    /\ \E ok \in BOOLEAN :
        /\ indexOk' = ok
        /\ log' = Append(log, Call("index", 0, 0, ok))
        /\ IF ok
           THEN /\ existing_map' = BuildIndex(sync, sheet)
                /\ spc' = IF sync = "catalog" THEN "fetch" ELSE "columns"
                /\ report' = report
           ELSE /\ existing_map' = EmptyIndex
                /\ IF sync = "catalog"
                   THEN /\ spc' = Handler(sync, "index")
                        /\ report' = Fatal(report, sync, "index")
                   ELSE spc' = "columns" /\ report' = report
    /\ UNCHANGED <<sync, client, source, sheet, nextRowId, runNo, records,
                   failed, ops, writes, prev>>
    /\ UNCHANGED <<reqVars, pageVars, overlapVars, hookVars, histVars>>

\* business_logic.py:788-789, business_logic.py:437-438,
\* sync_bind_catalogs.py:458 (_get_column_map)
GetColumns ==
    /\ spc = "columns"
    /\ \E ok \in BOOLEAN :
        /\ log' = Append(log, Call("columns", 0, 0, ok))
        /\ IF ok
           THEN /\ spc' = IF sync = "catalog" THEN "index" ELSE "reconcile"
                /\ report' = report
           ELSE /\ spc' = Handler(sync, "columns")
                /\ report' = Fatal(report, sync, "columns")
    /\ UNCHANGED <<sync, client, source, sheet, nextRowId, runNo, records,
                   failed, existing_map, indexOk, ops, writes, prev>>
    /\ UNCHANGED <<reqVars, pageVars, overlapVars, hookVars, histVars>>

\* The detail requests that may raise during the loop (invoices only).
DetailFailures ==
    IF sync # "invoices" THEN {{}}
    ELSE {{}, 1..Len(records)}
         \cup {{j} : j \in {k \in 1..Min(Len(records), MaxSrc + 1) :
                                ~Skipped(sync, records[k])}}

\* business_logic.py:791-906, business_logic.py:440-487,
\* sync_bind_catalogs.py:484-523: the reconciliation loop.
ReconcileRecords ==
    /\ spc = "reconcile"
    /\ \E f \in DetailFailures :
        LET o == Reconcile(sync, existing_map, records, f)
        IN  /\ failed' = f
            /\ ops' = o
            /\ log' = log \o DetailCalls(sync, records, f, ops')
            /\ IF Len(o) = 0
               THEN spc' = "reported" /\ report' = Completed(report, sync)
               ELSE spc' = "apply" /\ report' = report
    /\ UNCHANGED <<sync, client, source, sheet, nextRowId, runNo, records,
                   existing_map, indexOk, writes, prev>>
    /\ UNCHANGED <<reqVars, pageVars, overlapVars, hookVars, histVars>>

rows_to_add == OpsOfKind(ops, "insert")

rows_to_update == OpsOfKind(ops, "update")

RowsOf(o) == IF o = "insert" THEN rows_to_add ELSE rows_to_update

\* The kind submitted first: updates in business_logic.py:911-931 and
\* 492-512, inserts in sync_bind_catalogs.py:529-539.
FirstKind(kind) == IF kind = "catalog" THEN "insert" ELSE "update"

SecondKind(kind) == IF kind = "catalog" THEN "update" ELSE "insert"

\* The row-write calls of a run, in order: <<kind of operation, chunk>>.
Schedule(kind) ==
    LET a == ChunkCount(Len(RowsOf(FirstKind(kind))))
        b == ChunkCount(Len(RowsOf(SecondKind(kind))))
    IN  [c \in 1..(a + b) |->
            IF c <= a THEN <<FirstKind(kind), c>>
            ELSE <<SecondKind(kind), c - a>>]

\* Sheets.add_rows: invoices are added to_top (business_logic.py:904), the
\* others to_bottom (business_logic.py:481, sync_bind_catalogs.py:521).
AddRows(kind, rows, batch, first) ==
    LET new == [j \in 1..Len(batch) |-> Row(first + j - 1, batch[j].cell)]
    IN  IF kind = "invoices" THEN new \o rows ELSE rows \o new

\* Sheets.update_rows: the cells of the addressed rows are rewritten.
UpdateRows(rows, batch) ==
    [j \in 1..Len(rows) |->
        LET hits == {b \in 1..Len(batch) : batch[b].id = rows[j].id}
        IN  IF hits = {} THEN rows[j]
            ELSE Row(rows[j].id, batch[MaxOf(hits)].cell)]

\* One row-write call: the kind of its rows, the position in rows_to_add /
\* rows_to_update of its first row, the number of rows, whether it succeeded.
WriteCall(o, c, batch, ok) ==
    [op |-> o, from |-> (c - 1) * BatchSize + 1, size |-> Len(batch), ok |-> ok]

CountedAll(rep, o, batch) ==
    IF o = "insert"
    THEN [rep EXCEPT !.inserted = Len(RowsOf("insert"))]
    ELSE [rep EXCEPT !.updated = Len(RowsOf("update"))]

\* result["inserted"] += len(batch) / result["updated"] += len(batch)
Counted(rep, o, batch) ==
    IF o = "insert"
    THEN [rep EXCEPT !.inserted = rep.inserted + Len(batch)]
    ELSE [rep EXCEPT !.updated = rep.updated + Len(batch)]

\* The except clause around one chunk (business_logic.py:918-920, 929-931,
\* 499-501, 510-512); sync_catalog has none, so the exception ends the run
\* (sync_bind_catalogs.py:556-558).
ChunkFailed(rep, kind, o) ==
    IF kind = "catalog" THEN Fatal(rep, kind, o)
    ELSE [rep EXCEPT !.errors = Append(rep.errors, o)]

AfterWriteRescan(kind, index, rows) == BuildIndex(kind, rows)

\* existing_map after a row-write call: the loops of business_logic.py:908-931
\* and 489-512 and sync_bind_catalogs.py:525-539 neither assign it nor read
\* the sheet again.
AfterWrite(kind, index, rows) == index

AfterFailureStops(kind, last) == "reported"

\* Where the run goes after a chunk whose call raised: on to the next chunk
\* in business_logic.py, to the end of the run in sync_bind_catalogs.py.
AfterFailure(kind, last) ==
    IF kind = "catalog" \/ last THEN "reported" ELSE "apply"

\* business_logic.py:908-934, business_logic.py:489-514,
\* sync_bind_catalogs.py:525-554: one row-write call.
ApplyChunk ==
    /\ spc = "apply"
    /\ LET sched == Schedule(sync)
           c == Len(writes) + 1
           o == sched[c][1]
           batch == Chunk(RowsOf(o), sched[c][2])
           last == c = Len(sched)
       IN  \E ok \in BOOLEAN :
            /\ writes' = Append(writes, WriteCall(o, sched[c][2], batch, ok))
            /\ IF ok
               THEN /\ sheet' = IF o = "insert"
                                THEN AddRows(sync, sheet, batch, nextRowId)
                                ELSE UpdateRows(sheet, batch)
                    /\ nextRowId' = IF o = "insert"
                                    THEN nextRowId + Len(batch) ELSE nextRowId
                    /\ report' = IF last
                                 THEN Completed(Counted(report, o, batch), sync)
                                 ELSE Counted(report, o, batch)
                    /\ spc' = IF last THEN "reported" ELSE "apply"
               ELSE /\ UNCHANGED <<sheet, nextRowId>>
                    /\ spc' = AfterFailure(sync, last)
                    /\ report' = IF sync # "catalog" /\ last
                                 THEN Completed(ChunkFailed(report, sync, o), sync)
                                 ELSE ChunkFailed(report, sync, o)
    /\ existing_map' = AfterWrite(sync, existing_map, sheet')
    /\ UNCHANGED <<sync, client, source, runNo, records, failed, indexOk, ops,
                   prev, log>>
    /\ UNCHANGED <<reqVars, pageVars, overlapVars, hookVars, histVars>>

NextSync ==
    \/ StartRun
    \/ FetchSource
    \/ GetSheet
    \/ BuildKeyIndex
    \/ GetColumns
    \/ ReconcileRecords
    \/ ApplyChunk

SpecSync == InitSync /\ [][NextSync]_vars

\* The steps of a run that has started.
RunStep ==
    \/ FetchSource
    \/ GetSheet
    \/ BuildKeyIndex
    \/ GetColumns
    \/ ReconcileRecords
    \/ ApplyChunk

\* The sources of the runs whose progress is followed: no record, one
\* record, and a list longer than one batch.
FairSources(kind) ==
    SeqsUpTo(SmallRecs(kind), 1) \cup {LargeSource(BatchSize + BatchSize \div 2)}

InitSyncFair == InitSync /\ source \in FairSources(sync)

\* Every external call of a run returns or raises, so a run that has started
\* keeps taking steps.
SpecSyncFair == InitSyncFair /\ [][NextSync]_vars /\ WF_vars(RunStep)

(***************************************************************************)
(* Properties of the sync runs.                                            *)
(***************************************************************************)
Reconciled == spc = "apply" \/ (spc = "reported" /\ report.success)

CallsOf(o) == SelectSeq(writes, LAMBDA w : w.op = o)

RECURSIVE SumSizes(_)
SumSizes(ws) == IF ws = <<>> THEN 0 ELSE Head(ws).size + SumSizes(Tail(ws))

OkSize(o) == SumSizes(SelectSeq(writes, LAMBDA w : w.op = o /\ w.ok))

FailedCalls == SelectSeq(writes, LAMBDA w : ~w.ok)

\* C1: every operation whose business key is a key of the run's index is an
\* Update of exactly the row the index maps the key to, never an Insert, and
\* every source record with a key yields an operation.
C1_IndexedKeyUpdates ==
    /\ \A j \in 1..Len(ops) :
          ops[j].key \in DOMAIN existing_map
              => (ops[j].op = "update" /\ ops[j].id = existing_map[ops[j].key])
    /\ spc = "apply" =>
          \A s \in 1..Len(records) :
              ~Skipped(sync, records[s]) => \E j \in 1..Len(ops) : ops[j].src = s

C1_Witness ==
    /\ spc = "apply" /\ indexOk /\ Len(ops) >= 2
    /\ \E j, k \in 1..Len(ops) :
          /\ ops[j].op = "update" /\ ops[j].key \in DOMAIN existing_map
          /\ ops[j].id = existing_map[ops[j].key]
          /\ ops[k].op = "insert" /\ ops[k].key \notin DOMAIN existing_map

KeysDistinctNonEmpty ==
    /\ \A s \in 1..Len(records) : ~Skipped(sync, records[s])
    /\ \A s, t \in 1..Len(records) :
          s # t => KeyField(sync, records[s]) # KeyField(sync, records[t])

\* C2: idempotence across runs: when every write of the previous run
\* succeeded and this run reconciles the same source records, with pairwise
\* distinct non-empty keys, it emits no Insert and one Update per source row.
C2_Idempotent ==
    (/\ runNo >= 2 /\ Reconciled
     /\ prev.ran /\ prev.success /\ prev.writesOk
     /\ prev.fetched /\ records = source
     /\ KeysDistinctNonEmpty)
    => (/\ \A j \in 1..Len(ops) : ops[j].op = "update"
        /\ \A s \in 1..Len(records) : \E j \in 1..Len(ops) : ops[j].src = s)

\* The chunking of the operations of kind o into calls of at most BatchSize
\* rows, all full but the last.
ChunkedCalls(o) ==
    LET n == Len(RowsOf(o))
        cs == CallsOf(o)
    IN  /\ Len(cs) * BatchSize >= n
        /\ (Len(cs) - 1) * BatchSize < n \/ (n = 0 /\ Len(cs) = 0)
        /\ \A j \in 1..Len(cs) :
              cs[j].size = IF j < Len(cs) THEN BatchSize
                           ELSE n - (Len(cs) - 1) * BatchSize
        /\ SumSizes(cs) = n

PartialFailureReport ==
    /\ report.counts
    /\ report.inserted = OkSize("insert")
    /\ report.updated = OkSize("update")
    /\ Len(report.errors) = Len(FailedCalls)
    /\ report.inserted + report.updated + SumSizes(FailedCalls) = Len(ops)

\* C3: in sync_inventory and sync_invoices_from_bind the n operations of a
\* kind go out as ceil(n/100) calls; a call that raises does not stop the
\* following chunks, the rows of the calls that succeeded are counted and each
\* failed call adds one error string.
C3_ChunksSurviveFailure ==
    (sync # "catalog" /\ spc = "reported" /\ Len(ops) > 0) =>
        /\ ChunkedCalls("insert") /\ ChunkedCalls("update")
        /\ PartialFailureReport
        /\ report.success

C3_Witness ==
    /\ sync # "catalog" /\ spc = "reported" /\ Len(rows_to_add) = 150
    /\ Len(writes) = 2 /\ writes[1].size = 100 /\ writes[1].ok
    /\ writes[2].size = 50 /\ ~writes[2].ok
    /\ report.inserted = 100 /\ Len(report.errors) = 1

\* C4: in sync_catalog a failing chunk does not abort the run: its error is
\* recorded, the remaining chunks of both kinds are still submitted and the
\* rows of the chunks that succeeded are in the counts of the report.
C4_CatalogSurvivesFailure ==
    (sync = "catalog" /\ spc = "reported" /\ Len(writes) > 0) =>
        /\ ChunkedCalls("insert") /\ ChunkedCalls("update")
        /\ PartialFailureReport

(***************************************************************************)
(* BindClient.__init__ : the configuration is read once.                   *)
(***************************************************************************)
\* The methods _request is called with: GET by the readers, POST by
\* create_invoice (bind_client.py:316).
Methods == {"GET", "POST"}

InitRequest ==
    /\ max_retries \in -1..MaxRetriesBound
    /\ initial_backoff \in 1..MaxInitialBackoff
    /\ pc = "idle"
    /\ attempt = 0
    /\ backoff = 0
    /\ sleeps = <<>>
    /\ calls = 0
    /\ fails = 0
    /\ response = NoResponse
    /\ result = NoResult
    /\ reqNo = 0
    /\ leftBackoff = 0
    /\ method = "GET"
    /\ SyncIdle
    /\ PageIdle
    /\ HookIdle
    /\ HistoryIdle
    /\ OverlapIdle

\* bind_client.py:102-105 and 186: entry of _request; an empty range falls
\* through to the error after the loop.
StartRequest ==
    /\ pc \in {"idle", "done"}
    /\ reqNo < MaxRequests
    /\ reqNo' = reqNo + 1
    /\ leftBackoff' = backoff
    /\ backoff' = StartBackoff
    /\ attempt' = 0
    /\ sleeps' = <<>>
    /\ calls' = 0
    /\ fails' = 0
    /\ response' = NoResponse
    /\ method' \in Methods
    /\ IF max_retries + 1 > 0
       THEN pc' = "attempt" /\ result' = NoResult
       ELSE pc' = "done" /\ result' = Raise("unexpected", 0, 0, -1)
    /\ UNCHANGED <<max_retries, initial_backoff>>
    /\ UNCHANGED <<syncVars, pageVars, overlapVars, hookVars, histVars>>

\* `continue`: sleep, double the backoff, next value of the range (or the
\* fall-through error when the range is exhausted).
Continue(w) ==
    /\ sleeps' = Append(sleeps, w)
    /\ backoff' = NextBackoff(backoff)
    /\ attempt' = attempt + 1
    /\ IF attempt + 1 < max_retries + 1
       THEN pc' = "attempt" /\ result' = NoResult
       ELSE pc' = "done" /\ result' = Raise("unexpected", 0, 0, -1)

Finish(r) ==
    /\ pc' = "done"
    /\ result' = r
    /\ UNCHANGED <<sleeps, backoff, attempt>>

\* bind_client.py:105-184: one iteration of the loop.
RequestAttempt ==
    /\ pc = "attempt"
    /\ \E r \in Answers :
        /\ response' = r
        /\ calls' = calls + 1
        /\ fails' = IF IsTransient(r) THEN fails + 1 ELSE fails
        /\ IF r.kind = "response"
           THEN IF IsSuccess(r)
                THEN Finish(SuccessValue(r))
                ELSE IF r.status = 429
                THEN IF MayRetry(attempt)
                     THEN Continue(WaitTime(r, backoff))
                     ELSE Finish(Raise("rate_limit", 429, 0, -1))
                ELSE IF r.status >= 500 /\ MayRetry(attempt)
                THEN Continue(backoff)
                ELSE Finish(ClientError(r))
           ELSE IF MayRetry(attempt)
                THEN Continue(backoff)
                ELSE IF r.kind = "Timeout"
                     THEN Finish(Raise("timeout", 0, 0, -1))
                     ELSE Finish(Raise("connection", 0, 0, -1))
    /\ UNCHANGED <<max_retries, initial_backoff, reqNo, leftBackoff, method>>
    /\ UNCHANGED <<syncVars, pageVars, overlapVars, hookVars, histVars>>

NextRequest == StartRequest \/ RequestAttempt

SpecRequest == InitRequest /\ [][NextRequest]_vars

\* The fairness of the retry loop: session.request is called with a timeout,
\* so every iteration that has started ends.
SpecRequestFair == SpecRequest /\ WF_vars(RequestAttempt)

(***************************************************************************)
(* Properties of BindClient._request.                                      *)
(***************************************************************************)
RECURSIVE Pow2(_)
Pow2(n) == IF n <= 0 THEN 1 ELSE 2 * Pow2(n - 1)

InRequest == reqNo > 0 /\ pc \in {"attempt", "done"}

IsClientErrorResponse(r) ==
    r.kind = "response" /\ r.status >= 400 /\ r.status < 500 /\ r.status # 429

\* C5 (as stated): after k < max_retries consecutive transient failures a
\* success is returned; after k >= max_retries (k >= 1) failures the success
\* that would follow is never requested.
C5_Original ==
    InRequest =>
        /\ (pc = "done" /\ IsSuccess(response) /\ fails < max_retries)
              => result = SuccessValue(response)
        /\ (fails >= 1 /\ fails >= max_retries)
              => ~(pc = "done" /\ IsSuccess(response))

\* C5 (amended): k consecutive transient failures followed by a success
\* return that success whenever k <= max_retries (the call after the k-th
\* failure is made); after max_retries + 1 transient failures the call raises
\* a terminal error and no further HTTP call is made.
C5_RetryBudget ==
    InRequest =>
        /\ (calls = fails /\ fails <= max_retries) => pc = "attempt"
        /\ (pc = "done" /\ IsSuccess(response))
              => (result = SuccessValue(response) /\ calls = fails + 1
                  /\ fails <= max_retries)
        /\ (calls = fails /\ fails >= 1 /\ fails > max_retries)
              => (pc = "done" /\ result.kind = "raise"
                  /\ result.exc \in {"rate_limit", "status", "timeout", "connection"}
                  /\ calls = max_retries + 1)
        /\ calls <= max_retries + 1

C5_Witness ==
    /\ pc = "done" /\ IsSuccess(response) /\ max_retries >= 2
    /\ fails = max_retries /\ result.kind = "return" /\ result.body \in Bodies

\* C6: a 429 answer that is followed by another attempt is followed first by
\* a sleep of exactly the Retry-After seconds when the header is present,
\* and of the computed backoff when it is absent.
C6_RetryAfterSleep ==
    [][(calls' = calls + 1 /\ response'.kind = "response"
        /\ response'.status = 429 /\ pc' = "attempt")
       => sleeps' = Append(sleeps, IF response'.ra # NoHeader
                                   THEN response'.ra ELSE backoff)]_vars

C6_Witness ==
    /\ pc = "attempt" /\ response.kind = "response" /\ response.status = 429
    /\ response.ra = 7 /\ Len(sleeps) = 2 /\ sleeps[2] = 7
    /\ sleeps[1] = initial_backoff /\ backoff = 4 * initial_backoff

\* C7: the computed backoff in force after j transient retries of any kind is
\* initial_backoff * 2^j, so the j-th retry sees initial_backoff * 2^(j-1).
C7_BackoffDoubles ==
    InRequest =>
        /\ Len(sleeps) = attempt
        /\ backoff = initial_backoff * Pow2(attempt)
        /\ (pc = "attempt" => attempt = fails)

C7_Witness ==
    /\ pc = "attempt" /\ attempt = 3 /\ backoff = 8 * initial_backoff
    /\ sleeps[1] = 7 /\ sleeps[2] = 2 * initial_backoff /\ sleeps[3] = 0

\* C8 (as stated): a request issued after an earlier request starts from the
\* backoff the earlier request left.
C8_Original ==
    (reqNo >= 2 /\ pc = "attempt" /\ attempt = 0) => backoff = leftBackoff

\* C8 (amended): the computed backoff is reset at the start of every request:
\* each request starts from the configured initial value, whatever an earlier
\* request on the same client left.
C8_BackoffResetPerRequest ==
    (InRequest /\ attempt = 0) => backoff = initial_backoff

C8_Witness ==
    /\ reqNo = 2 /\ pc = "attempt" /\ attempt = 0
    /\ leftBackoff >= 4 * initial_backoff /\ backoff = initial_backoff

\* Shared part of C9: a 4xx answer other than 429 ends the request at once
\* with an error carrying the status and the parsed body; the attempt made
\* one call and slept for nothing.
ClientErrorTerminal ==
    /\ pc = "done" /\ result.kind = "raise" /\ result.exc = "status"
    /\ result.status = response.status
    /\ calls = fails + 1 /\ Len(sleeps) = fails /\ attempt = fails
    /\ response.content = "object" => (result.body = response.body /\ result.raw = -1)

C10_Original ==
    (InRequest /\ max_retries >= 1) => calls <= max_retries

C10_Bound ==
    InRequest =>
        /\ calls <= max_retries + 1
        /\ (pc = "attempt" => (calls = attempt /\ attempt <= max_retries))
        /\ (max_retries >= 0 /\ pc = "done")
              => (calls >= 1 /\ result.kind # "none" /\ result.exc # "unexpected")

\* C10 (amended): every call of _request terminates after at most
\* max_retries + 1 HTTP calls; with max_retries >= 0 at least one call is
\* made and the error after the loop is never raised.
C10_Terminates ==
    /\ []C10_Bound
    /\ (pc = "attempt") ~> (pc = "done")

C10_Witness ==
    /\ pc = "done" /\ max_retries >= 2 /\ calls = max_retries + 1
    /\ fails = calls /\ result.kind = "raise"

(***************************************************************************)
(* BindClient._paginated_get.                                              *)
(* In answer to $skip = s and $top = t an endpoint serves the records      *)
(* s+1 .. min(s+t, n) of its list of n records, as a bare array ("list")   *)
(* or under "value" ("value"); or it ignores $top and serves the records   *)
(* s+1 .. n as a bare array ("greedy"); or it answers every request with   *)
(* one JSON object that has no "value" ("object"), or with no content      *)
(* ("empty").                                                              *)
(* A record is identified by its position in the list; 0 is the response   *)
(* object itself.                                                          *)
(***************************************************************************)
Shapes == {"list", "value", "greedy", "object", "empty"}

ListShapes == {"list", "value"}

\* max_records = None (line 229 treats None and 0 alike)
NoLimit == 0

\* Page requests after which the model stops following a loop.
MaxPageCalls == MaxRecords + 2

Endpoints ==
    {[shape |-> sh, n |-> n] : sh \in ListShapes \cup {"greedy"},
                               n \in 0..MaxRecords}
    \cup {[shape |-> "object", n |-> 0], [shape |-> "empty", n |-> 0]}

Slice(n, s, t) == [j \in 1..(Min(n, s + t) - Min(n, s)) |-> s + j]

NormalizeDropsObject(e, s, t) ==
    CASE e.shape \in ListShapes -> Slice(e.n, s, t)
      [] e.shape = "greedy" -> Slice(e.n, s, e.n)
      [] e.shape = "object" -> <<>>
      [] e.shape = "empty" -> <<>>

\* bind_client.py:216-221
Normalize(e, s, t) ==
    CASE e.shape \in ListShapes -> Slice(e.n, s, t)
      [] e.shape = "greedy" -> Slice(e.n, s, e.n)
      [] e.shape = "object" -> <<0>>
      [] e.shape = "empty" -> <<>>

\* The base query of the callers: none, or an OData $filter
\* (bind_client.py:291-296, 335-340); `params or {}` (line 209) makes None
\* the empty query.
BaseParams == {{}, {"$filter"}}

\* bind_client.py:212: {**params, "$skip": skip, "$top": page_size}
PageParams(base, s, t) == [base |-> base, skip |-> s, top |-> t]

NextSkipByReceived(s, recs) == s + Len(recs)

NextSkipStuck(s, recs) == s

\* bind_client.py:242
NextSkip(s, recs) == s + page_size

\* bind_client.py:229
LimitReached(all) == max_records # NoLimit /\ Len(all) >= max_records

TruncateNone(all) == all

\* bind_client.py:230
Truncate(all) == SubSeq(all, 1, max_records)

ShortPageOrFull(recs) == Len(recs) <= page_size

ShortPageNever(recs) == FALSE

\* bind_client.py:234 (the test of lines 238-240 repeats it and never fires)
ShortPage(recs) == Len(recs) < page_size

StopReasonShortFirst(recs, all) ==
    IF recs = <<>> THEN "empty"
    ELSE IF ShortPage(recs) THEN "short"
    ELSE IF LimitReached(all) THEN "limit"
    ELSE ""

\* bind_client.py:223-235: the tests that end the loop, in the order of the
\* code: no records, max_records reached, short page.
StopReason(recs, all) ==
    IF recs = <<>> THEN "empty"
    ELSE IF LimitReached(all) THEN "limit"
    ELSE IF ShortPage(recs) THEN "short"
    ELSE ""

PageErrorReturnsPartial == "returned"

\* bind_client.py:213: _request is called outside any try statement, so its
\* BindAPIError leaves _paginated_get and all_records is dropped.
PageError == "raised"

InitPage ==
    /\ RequestIdle
    /\ SyncIdle
    /\ OverlapIdle
    /\ HookIdle
    /\ HistoryIdle
    /\ page_size \in 1..MaxPageSize
    /\ max_records \in NoLimit..MaxLimit
    /\ params \in BaseParams
    /\ endpoint \in Endpoints
    /\ ppc = "idle"
    /\ skip = 0
    /\ all_records = <<>>
    /\ pageReqs = <<>>
    /\ lastPage = 0
    /\ stop = ""
    /\ consumed = 0

\* bind_client.py:207-209
StartPaginate ==
    /\ ppc = "idle"
    /\ ppc' = "loop"
    /\ skip' = 0
    /\ all_records' = <<>>
    /\ UNCHANGED <<page_size, max_records, params, endpoint, pageReqs,
                   lastPage, stop, consumed>>
    /\ UNCHANGED <<reqVars, syncVars, overlapVars, hookVars, histVars>>

\* `break` followed by `return all_records` (lines 245-246)
Break(why, all) ==
    /\ ppc' = "returned"
    /\ stop' = why
    /\ all_records' = all
    /\ skip' = skip

\* bind_client.py:211-243: one iteration of `while True`.  The call of
\* _request returns a page or raises; the error leaves _paginated_get.
PageRequest ==
    /\ ppc = "loop"
    /\ Len(pageReqs) < MaxPageCalls
    /\ pageReqs' = Append(pageReqs, PageParams(params, skip, page_size))
    /\ \E ok \in BOOLEAN :
        IF ~ok
        THEN /\ ppc' = PageError
             /\ stop' = "error"
             /\ UNCHANGED <<skip, all_records, lastPage>>
        ELSE LET recs == Normalize(endpoint, skip, page_size)
                 all == all_records \o recs
                 why == StopReason(recs, all)
             IN /\ lastPage' = Len(recs)
                /\ IF why = "empty"
                   THEN Break("empty", all_records)
                   ELSE IF why = "limit"
                   THEN Break("limit", Truncate(all))
                   ELSE IF why = "short"
                   THEN Break("short", all)
                   ELSE /\ ppc' = "loop"
                        /\ stop' = ""
                        /\ all_records' = all
                        /\ skip' = NextSkip(skip, recs)
    /\ UNCHANGED <<page_size, max_records, params, endpoint, consumed>>
    /\ UNCHANGED <<reqVars, syncVars, overlapVars, hookVars, histVars>>

\* The caller iterates over the returned list (`for product in products`).
Consume ==
    /\ ppc = "returned"
    /\ consumed < Len(all_records)
    /\ consumed' = consumed + 1
    /\ UNCHANGED <<page_size, max_records, params, endpoint, ppc, skip,
                   all_records, pageReqs, lastPage, stop>>
    /\ UNCHANGED <<reqVars, syncVars, overlapVars, hookVars, histVars>>

NextPage == StartPaginate \/ PageRequest \/ Consume

SpecPage == InitPage /\ [][NextPage]_vars

\* _request returns or raises (it makes at most max_retries + 1 calls), so a
\* loop that has a page to request goes on to request it.
SpecPageFair == SpecPage /\ WF_vars(PageRequest)

(***************************************************************************)
(* Properties of BindClient._paginated_get.                                *)
(***************************************************************************)
CeilDiv(a, b) == (a + b - 1) \div b

FirstRecords(k) == [j \in 1..k |-> j]

Unlimited ==
    ppc = "returned" /\ max_records = NoLimit /\ endpoint.shape \in ListShapes

\* C11 (as stated): over N records with page size P and no max_records the
\* paginator issues exactly ceil(N/P) page requests.
C11_Original ==
    Unlimited => Len(pageReqs) = CeilDiv(endpoint.n, page_size)

\* C11 (amended): over N records with page size P and no max_records the
\* paginator issues floor(N/P) + 1 page requests and returns the N records:
\* ceil(N/P) requests, ending at the short page, when N is not a multiple of
\* P, and N/P + 1 requests, the last one answered by an empty page, when N
\* is a multiple of P (N = 0 included).
C11_PageCount ==
    Unlimited =>
        /\ Len(pageReqs) = (endpoint.n \div page_size) + 1
        /\ all_records = FirstRecords(endpoint.n)
        /\ (endpoint.n % page_size # 0)
              => (Len(pageReqs) = CeilDiv(endpoint.n, page_size)
                  /\ stop = "short")
        /\ (endpoint.n % page_size = 0)
              => (Len(pageReqs) = CeilDiv(endpoint.n, page_size) + 1
                  /\ stop = "empty" /\ lastPage = 0)

C11_Witness ==
    /\ Unlimited /\ endpoint.n >= 2 * page_size
    /\ endpoint.n % page_size = 0 /\ page_size >= 2
    /\ Len(pageReqs) = (endpoint.n \div page_size) + 1 /\ stop = "empty"

\* C12: a page with fewer records than page_size is the last page requested,
\* whether or not max_records is set and reached: the step that receives it
\* returns, and nothing is requested after the return.
C12_ShortPageIsLast ==
    [][/\ (Len(pageReqs') = Len(pageReqs) + 1 /\ ppc' # "raised"
           /\ lastPage' < page_size) => ppc' = "returned"
       /\ (ppc = "returned") => (pageReqs' = pageReqs /\ ppc' = "returned")]_vars

C12_Witness ==
    /\ ppc = "returned" /\ stop = "short" /\ max_records > Len(all_records)
    /\ Len(pageReqs) >= 2 /\ lastPage >= 1 /\ lastPage < page_size

\* C13: with max_records >= 1 the paginator never returns more than
\* max_records records, and over a record list it returns the first
\* min(N, max_records) records in source order.
C13_LimitTruncates ==
    (ppc = "returned" /\ max_records >= 1) =>
        /\ Len(all_records) <= max_records
        /\ endpoint.shape \in ListShapes
              => all_records = FirstRecords(Min(endpoint.n, max_records))

C13_Witness ==
    /\ ppc = "returned" /\ stop = "limit" /\ endpoint.n > max_records
    /\ max_records > page_size /\ max_records % page_size # 0
    /\ all_records = FirstRecords(max_records)

\* C19: the request for page k+1 is issued only after the caller has consumed
\* the records of page k.
C19_LazyPages ==
    endpoint.shape \in ListShapes =>
        \A k \in 2..Len(pageReqs) : consumed >= pageReqs[k].skip

(***************************************************************************)
(* The error of an exhausted retry budget.                                 *)
(***************************************************************************)
\* The request ended on a transient failure: its last attempt was the last
\* value of the range.
Exhausted == InRequest /\ pc = "done" /\ IsTransient(response)

ExhaustedClass ==
    /\ result.kind = "raise"
    /\ calls = max_retries + 1
    /\ response.kind = "response" /\ response.status = 429
          => result = Raise("rate_limit", 429, 0, -1)
    /\ (response.kind = "response" /\ response.status >= 500)
          => (/\ result.exc = "status" /\ result.status = response.status
              /\ response.content = "object"
                    => (result.body = response.body /\ result.raw = -1))
    /\ response.kind \in {"Timeout", "RequestException"}
          => (result.status = 0 /\ result.body = 0 /\ result.raw = -1
              /\ result.exc = IF response.kind = "Timeout"
                              THEN "timeout" ELSE "connection")

NoKey(rec) == rec.key \in {Missing, None, EmptyStr}

\* C14: a source record whose key field is empty, null or missing produces
\* neither an Insert nor an Update.
C14_EmptyKeySkipped ==
    Reconciled => \A j \in 1..Len(ops) : ~NoKey(records[ops[j].src])

RunPositions ==
    {"idle", "fetch", "sheet", "index", "columns", "reconcile", "apply",
     "reported"}

\* C15: every run that starts ends by returning a report, whichever call
\* raises; no exception leaves the sync function.
C15_AlwaysReports ==
    /\ [](spc \in RunPositions)
    /\ (spc \notin {"idle", "reported"}) ~> (spc = "reported")

C15_Witness ==
    /\ spc = "reported" /\ ~report.success
    /\ report.errors = <<"columns">> /\ Len(records) >= 1

ZeroSingleError(rep) ==
    rep.inserted = 0 /\ rep.updated = 0 /\ Len(rep.errors) = 1

InSourceOrder(os) ==
    \A i \in 1..(Len(os) - 1) :
        \/ os[i].src < os[i + 1].src
        \/ (os[i].src = os[i + 1].src /\ os[i].sub < os[i + 1].sub)

\* C17: every row-write call carries between 1 and 100 rows of one kind, a
\* contiguous slice of rows_to_add or rows_to_update, which are in
\* source-record order; calls of one kind are made in the order of their
\* chunks; and a successful call of add_rows puts exactly those rows, in
\* that order, on the sheet.
C17_BatchShape ==
    /\ InSourceOrder(rows_to_add) /\ InSourceOrder(rows_to_update)
    /\ \A j \in 1..Len(writes) :
          /\ writes[j].size >= 1 /\ writes[j].size <= BatchSize
          /\ writes[j].from + writes[j].size - 1 <= Len(RowsOf(writes[j].op))
          /\ \A k \in 1..Len(writes) :
                (j < k /\ writes[j].op = writes[k].op)
                    => writes[j].from + writes[j].size = writes[k].from
                       \/ writes[j].from + writes[j].size < writes[k].from

C17_RowsInOrder ==
    [][(Len(writes') = Len(writes) + 1 /\ writes'[Len(writes')].ok
        /\ writes'[Len(writes')].op = "insert")
       => LET w == writes'[Len(writes')]
              new == [j \in 1..w.size |->
                        Row(nextRowId + j - 1, rows_to_add[w.from + j - 1].cell)]
          IN  sheet' = IF sync = "invoices" THEN new \o sheet ELSE sheet \o new]_vars

C17_OrderedBatches == []C17_BatchShape /\ C17_RowsInOrder

C17_Witness ==
    /\ spc = "reported" /\ Len(rows_to_add) = 2 * BatchSize + 1
    /\ Len(writes) = 3 /\ writes[1].from = 1 /\ writes[2].from = BatchSize + 1
    /\ writes[3].from = 2 * BatchSize + 1 /\ writes[3].size = 1
    /\ \A j \in 1..3 : writes[j].ok

(***************************************************************************)
(* Overlapping runs.  main.py starts a sync from the interval job          *)
(* (main.py:109-135) and from BackgroundTasks of the manual endpoints      *)
(* (main.py:380-384, 418-422, 829-851); each start runs the sync function  *)
(* in a thread of the default executor (main.py:212, 229).  Run 1 is the   *)
(* scheduled run and run 2 a manual one, or both are manual.  The sources  *)
(* here are shorter than one batch, so each kind of row goes out in one    *)
(* call.                                                                   *)
(***************************************************************************)
OverlapKinds == {"inventory", "invoices"}

OverlapRecs == {Rec(StrA, 1), Rec(StrB, 1), Rec(EmptyStr, 1)}

InitOverlap ==
    /\ RequestIdle
    /\ PageIdle
    /\ HookIdle
    /\ HistoryIdle
    /\ sync \in OverlapKinds
    /\ client \in IF sync = "invoices" THEN {"BindClient", "injected"}
                  ELSE {"BindClient"}
    /\ source \in SeqsUpTo(OverlapRecs, MaxOverlapSrc)
    /\ sheet \in InitSheets
    /\ nextRowId = Len(sheet) + 1
    /\ runNo = 0
    /\ spc = "idle"
    /\ records = <<>>
    /\ failed = {}
    /\ existing_map = EmptyIndex
    /\ indexOk = FALSE
    /\ ops = <<>>
    /\ writes = <<>>
    /\ report = NewReport
    /\ prev = NoPrev
    /\ log = <<>>
    /\ OverlapIdle

MayStartExclusive(p) == \A q \in Runs \ {p} : opc[q] \in {"idle", "reported"}

\* main.py:207-212, 224-229, 380-384, 418-422, 829-851: nothing is tested
\* or acquired before a run starts.
MayStart(p) == TRUE

IndexAtReconcileLive(p) == BuildIndex(sync, sheet)

\* The index a run reconciles against is the one it built before the loop
\* (business_logic.py:434 and 472, 784 and 895).
IndexAtReconcile(p) == omap[p]

OverlapUnchanged ==
    /\ UNCHANGED <<sync, client, source, runNo, spc, records, failed,
                   existing_map, indexOk, ops, writes, report, prev, log>>
    /\ UNCHANGED <<reqVars, pageVars, hookVars, histVars>>

\* business_logic.py:403-418, 741-761
OStart(p) ==
    /\ opc[p] = "idle"
    /\ MayStart(p)
    /\ opc' = [opc EXCEPT ![p] = "fetch"]
    /\ oreport' = [oreport EXCEPT ![p] = NewReport]
    /\ UNCHANGED <<omap, oops, olog, sheet, nextRowId>>
    /\ OverlapUnchanged

\* business_logic.py:424-431, 769-781
OFetch(p) ==
    /\ opc[p] = "fetch"
    /\ \E ok \in BOOLEAN :
        IF ok /\ FetchAccepted
        THEN IF Len(source) = 0
             THEN /\ opc' = [opc EXCEPT ![p] = "reported"]
                  /\ oreport' = [oreport EXCEPT ![p].success = TRUE]
             ELSE /\ opc' = [opc EXCEPT ![p] = "index"]
                  /\ oreport' = [oreport EXCEPT ![p].total = Len(source)]
        ELSE /\ opc' = [opc EXCEPT ![p] = Handler(sync, "fetch")]
             /\ oreport' = [oreport EXCEPT ![p] = Fatal(oreport[p], sync, "fetch")]
    /\ UNCHANGED <<omap, oops, olog, sheet, nextRowId>>
    /\ OverlapUnchanged

\* business_logic.py:434, 784: the scan of the sheet as it is now.
OBuildKeyIndex(p) ==
    /\ opc[p] = "index"
    /\ \E ok \in BOOLEAN :
        /\ omap' = [omap EXCEPT ![p] = IF ok THEN BuildIndex(sync, sheet)
                                      ELSE EmptyIndex]
        /\ olog' = [olog EXCEPT ![p].indexOk = ok]
    /\ opc' = [opc EXCEPT ![p] = "columns"]
    /\ UNCHANGED <<oops, oreport, sheet, nextRowId>>
    /\ OverlapUnchanged

\* business_logic.py:437-438, 788-789
OGetColumns(p) ==
    /\ opc[p] = "columns"
    /\ \E ok \in BOOLEAN :
        IF ok
        THEN opc' = [opc EXCEPT ![p] = "reconcile"] /\ oreport' = oreport
        ELSE /\ opc' = [opc EXCEPT ![p] = Handler(sync, "columns")]
             /\ oreport' = [oreport EXCEPT ![p] = Fatal(oreport[p], sync, "columns")]
    /\ UNCHANGED <<omap, oops, olog, sheet, nextRowId>>
    /\ OverlapUnchanged

\* Where a run goes when the rows of kind o are dealt with.
OAfter(os, o) ==
    IF o = "start" /\ OpsOfKind(os, "update") # <<>> THEN "update"
    ELSE IF o \in {"start", "update"} /\ OpsOfKind(os, "insert") # <<>>
    THEN "insert"
    ELSE "reported"

OFinish(rep, kind, next) ==
    IF next = "reported" THEN Completed(rep, kind) ELSE rep

\* business_logic.py:440-487, 791-906: the reconciliation loop.
OReconcile(p) ==
    /\ opc[p] = "reconcile"
    /\ \E f \in {{}, IF sync = "invoices" THEN 1..Len(source) ELSE {}} :
        LET o == Reconcile(sync, IndexAtReconcile(p), source, f)
            next == OAfter(o, "start")
        IN  /\ oops' = [oops EXCEPT ![p] = o]
            /\ opc' = [opc EXCEPT ![p] = next]
            /\ oreport' = [oreport EXCEPT ![p] = OFinish(oreport[p], sync, next)]
    /\ UNCHANGED <<omap, olog, sheet, nextRowId>>
    /\ OverlapUnchanged

\* business_logic.py:492-512, 911-931: the row-write call of one kind.
OApply(p) ==
    /\ opc[p] \in {"update", "insert"}
    /\ LET o == opc[p]
           batch == Chunk(OpsOfKind(oops[p], o), 1)
           next == OAfter(oops[p], o)
       IN  \E ok \in BOOLEAN :
            /\ opc' = [opc EXCEPT ![p] = next]
            /\ IF ok
               THEN /\ sheet' = IF o = "insert"
                                THEN AddRows(sync, sheet, batch, nextRowId)
                                ELSE UpdateRows(sheet, batch)
                    /\ nextRowId' = IF o = "insert"
                                    THEN nextRowId + Len(batch) ELSE nextRowId
                    /\ oreport' = [oreport EXCEPT ![p] =
                                     OFinish(Counted(oreport[p], o, batch), sync, next)]
                    /\ olog' = olog
               ELSE /\ UNCHANGED <<sheet, nextRowId>>
                    /\ oreport' = [oreport EXCEPT ![p] =
                                     OFinish(ChunkFailed(oreport[p], sync, o), sync, next)]
                    /\ olog' = [olog EXCEPT ![p].writesOk = FALSE]
    /\ UNCHANGED <<omap, oops>>
    /\ OverlapUnchanged

NextOverlap ==
    \E p \in Runs :
        \/ OStart(p)
        \/ OFetch(p)
        \/ OBuildKeyIndex(p)
        \/ OGetColumns(p)
        \/ OReconcile(p)
        \/ OApply(p)

SpecOverlap == InitOverlap /\ [][NextOverlap]_vars

(***************************************************************************)
(* Properties of overlapping runs.                                         *)
(***************************************************************************)
RowsKeyed(k) == {j \in 1..Len(sheet) : IndexKey(sync, sheet[j].key) = k}

BothDone ==
    \A p \in Runs :
        /\ opc[p] = "reported" /\ oreport[p].success
        /\ olog[p].indexOk /\ olog[p].writesOk

\* The keys both runs found missing from the sheet when they scanned it.
NewToBoth ==
    {oops[1][j].key : j \in 1..Len(oops[1])}
        \ (DOMAIN omap[1] \cup DOMAIN omap[2])

\* C18: runs of one sync are not serialized: when two runs have both scanned
\* the sheet before either wrote a key, both insert it, and once both have
\* written the sheet holds two rows (or more) for that key.
C18_OverlapDuplicates ==
    /\ \A p \in Runs : opc[p] \in {"update", "insert", "reported"}
          => \A j \in 1..Len(oops[p]) :
                oops[p][j].op = IF oops[p][j].key \in DOMAIN omap[p]
                                THEN "update" ELSE "insert"
    /\ BothDone => \A k \in NewToBoth : Cardinality(RowsKeyed(k)) >= 2

C18_Witness ==
    /\ BothDone /\ source = <<Rec(StrB, 1)>>
    /\ NewToBoth = {StrB} /\ Cardinality(RowsKeyed(StrB)) = 2

(***************************************************************************)
(* Order of the calls of a run: reads of the target, requests to the       *)
(* source, decisions, row writes.                                          *)
(***************************************************************************)
SourceCalls == {"fetch", "detail"}

IsDetail(c) == c.call = "detail"

\* The states of a run named by the specification: Fetching covers the
\* page fetch and the reads of the target that precede the record loop.
PhaseRank(pos) ==
    CASE pos = "idle" -> 0
      [] pos \in {"fetch", "sheet", "index", "columns"} -> 1
      [] pos = "reconcile" -> 2
      [] pos = "apply" -> 3
      [] pos = "reported" -> 4

SameRun == runNo' = runNo

\* No call of the run raised.
Healthy ==
    /\ \A j \in 1..Len(log) : log[j].ok
    /\ AllOk(writes)

C21_NoWriteBefore ==
    spc \in {"fetch", "sheet", "index", "columns", "reconcile"}
        => writes = <<>>

C21_FrozenStep ==
    [][(SameRun /\ writes' # <<>>) =>
          /\ existing_map' = existing_map
          /\ indexOk' = indexOk
          /\ ops' = ops
          /\ log' = log]_vars

\* C21: the index of a run is a snapshot: no row write is submitted before
\* the run has read the target, made its requests and decided every
\* operation, and from the first row-write call on the index, the decisions
\* and the list of reads and requests no longer change.
C21_SnapshotBeforeWrites == []C21_NoWriteBefore /\ C21_FrozenStep

C21_Witness ==
    /\ spc = "reported" /\ indexOk /\ Len(writes) >= 1 /\ AllOk(writes)
    /\ \E j \in 1..Len(log) : log[j].call = "index" /\ log[j].ok
    /\ existing_map # BuildIndex(sync, sheet)

\* C22 as stated: no request goes to the source once the record loop has
\* decided an operation.
C22_Original ==
    \A j \in 1..Len(log) :
        log[j].call \in SourceCalls => log[j].before = 0

C22_PhaseStep ==
    [][SameRun =>
          /\ PhaseRank(spc') >= PhaseRank(spc)
          /\ log' # log =>
                \/ PhaseRank(spc) = 1 /\ Len(log') = Len(log) + 1
                                      /\ ~IsDetail(log'[Len(log')])
                \/ /\ spc = "reconcile" /\ sync = "invoices"
                   /\ \A j \in (Len(log) + 1)..Len(log') : IsDetail(log'[j])]_vars

C22_SourceRequests ==
    /\ \A j \in 1..Len(log) :
          /\ log[j].call = "fetch" =>
                \A k \in 1..(j - 1) : ~IsDetail(log[k])
          /\ IsDetail(log[j]) =>
                /\ sync = "invoices"
                /\ ~Skipped(sync, records[log[j].src])
                /\ log[j].before < Len(ops)
                /\ ops[log[j].before + 1].src = log[j].src
                /\ log[j].before > 0 => ops[log[j].before].src < log[j].src
                /\ (j > 1 /\ IsDetail(log[j - 1])) => log[j - 1].src < log[j].src
    /\ (sync = "invoices" /\ Reconciled) =>
          Len(SelectSeq(log, IsDetail))
              = Len(SelectSeq(records, LAMBDA r : ~Skipped(sync, r)))
    /\ sync # "invoices" =>
          Len(SelectSeq(log, LAMBDA c : c.call \in SourceCalls)) <= 1

\* C22 (amended): within a run the states Fetching, Reconciling, Applying,
\* Reported are never gone back to; sync_inventory and sync_catalog make one
\* request to the source, before the record loop; sync_invoices_from_bind
\* makes in addition one detail request per invoice that has a UUID, inside
\* the record loop, after the operations of the earlier invoices are decided
\* and before those of its own invoice; no request is made once a row write
\* has been submitted.
C22_PhasesInOrder == []C22_SourceRequests /\ C22_PhaseStep

C22_Witness ==
    /\ sync = "invoices" /\ spc = "reported" /\ report.success
    /\ Len(writes) >= 1
    /\ \E j \in 1..Len(log) : IsDetail(log[j]) /\ log[j].before > 0

\* C23: a run whose index scan raised submits no Insert.
C23_NoInsertWithoutIndex ==
    (\E j \in 1..Len(log) : log[j].call = "index" /\ ~log[j].ok)
        => \A w \in 1..Len(writes) : writes[w].op # "insert"

\* C24: a run in which a request to the source failed submits no row write.
C24_FailedRequestFatal ==
    (\E j \in 1..Len(log) : log[j].call \in SourceCalls /\ ~log[j].ok)
        => writes = <<>>

\* C25: a run of sync_invoices_from_bind with the BindClient, over a source
\* that has an invoice with a UUID and with no call failing, does not end in
\* the failure report.
C25_InvoicesPastFetching ==
    (/\ sync = "invoices" /\ client = "BindClient" /\ spc = "reported"
     /\ Healthy
     /\ \E s \in 1..Len(source) : ~Skipped(sync, source[s]))
    => (report.success /\ writes # <<>>)

\* C26: the decision for a record depends on its key and on the index as it
\* was built, not on the earlier decisions of the run: a key absent from the
\* index gives an Insert each time it occurs, a key present in it an Update
\* of the indexed row each time.
C26_IndexNotUpdated ==
    \A j \in 1..Len(ops) :
        IF ops[j].key \in DOMAIN existing_map
        THEN ops[j].op = "update" /\ ops[j].id = existing_map[ops[j].key]
        ELSE ops[j].op = "insert" /\ ops[j].id = 0

C26_Witness ==
    /\ spc = "apply" /\ Len(ops) = 2 /\ indexOk
    /\ ops[1].src # ops[2].src
    /\ ops[1].key = ops[2].key
    /\ ops[1].key \notin DOMAIN existing_map
    /\ ops[1].op = "insert" /\ ops[2].op = "insert"

\* C27: in every report of sync_invoices_from_bind unchanged is not negative
\* and inserted + updated + unchanged = total_in_bind.
C27_ReportAddsUp ==
    (sync = "invoices" /\ spc = "reported") =>
        /\ report.unchanged >= 0
        /\ report.inserted + report.updated + report.unchanged = report.total

\* The rows whose key cell is not empty, as the scan meets them.
KeyedRows == {j \in 1..Len(sheet) : sheet[j].key # EmptyStr}

Products(s) == IF s \in failed THEN 0 ELSE records[s].nprod

\* C29: an invoice with N >= 2 products gives N rows keyed <uuid>-0 ..
\* <uuid>-(N-1), pairwise distinct; an invoice with one product or none gives
\* one row keyed by the bare uuid.  The rows of an invoice are consecutive
\* operations, numbered from 0.
C29_RowsPerInvoice ==
    (sync = "invoices" /\ Reconciled) =>
        /\ \A j \in 1..Len(ops) :
              LET s == ops[j].src
                  n == Products(s)
                  uuid == KeyField(sync, records[s])
                  first == j = 1 \/ ops[j - 1].src # s
                  last == j = Len(ops) \/ ops[j + 1].src # s
              IN  /\ first <=> ops[j].sub = 0
                  /\ ~first => /\ ops[j - 1].sub + 1 = ops[j].sub
                               /\ ops[j - 1].key # ops[j].key
                  /\ last <=> ops[j].sub = (IF n >= 2 THEN n - 1 ELSE 0)
                  /\ ops[j].key = IF n >= 2 THEN WithIndex(uuid, ops[j].sub)
                                  ELSE uuid
                  /\ j > 1 => ops[j - 1].src <= s
        /\ Len(SelectSeq(ops, LAMBDA o : o.sub = 0))
              = Len(SelectSeq(records, LAMBDA r : ~Skipped(sync, r)))

C29_Witness ==
    /\ sync = "invoices" /\ spc = "apply" /\ failed = {}
    /\ Len(records) = 2
    /\ records[1].nprod = MaxProducts /\ records[2].nprod = 0
    /\ Len(ops) = MaxProducts + 1
    /\ ops[1].key # ops[2].key
    /\ ops[Len(ops)].key = KeyField(sync, records[2])

\* C30: the k-th page request of a call (k = 0, 1, ...) carries
\* $skip = k * page_size, $top = page_size and the base query unchanged: the
\* offset starts at 0 and grows by page_size, whatever the number of records
\* the pages held.
C30_PageOffsets ==
    /\ \A k \in 1..Len(pageReqs) :
          /\ pageReqs[k].skip = (k - 1) * page_size
          /\ pageReqs[k].top = page_size
          /\ pageReqs[k].base = params
    /\ ppc = "loop" => skip = Len(pageReqs) * page_size

C30_Witness ==
    /\ ppc = "returned" /\ params # {} /\ Len(pageReqs) >= 3
    /\ Len(all_records) > Len(pageReqs) * page_size
    /\ pageReqs[3].skip = 2 * page_size

\* The records received so far by a call that has returned, the last page
\* included: an endpoint that serves by offset has served one more page than
\* the offset counts.
ReceivedTotal == skip + lastPage

\* C31 as stated: a short final page that takes the total above max_records
\* ends the loop through the short-page test, which does not truncate.
C31_Original ==
    (/\ ppc = "returned" /\ endpoint.shape \in ListShapes
     /\ max_records >= 1 /\ lastPage >= 1 /\ lastPage < page_size
     /\ ReceivedTotal > max_records)
    => (stop = "short" /\ Len(all_records) = ReceivedTotal)

\* C31 (amended): the tests are made in the order empty page, max_records
\* reached, short page: a short final page that takes the total to
\* max_records or above ends the loop through the max_records test and the
\* result is cut to max_records; the short-page test ends the loop only
\* while the total is below max_records.
C31_CheckOrder ==
    ppc = "returned" =>
        /\ stop \in {"empty", "limit", "short"}
        /\ stop = "empty" <=> lastPage = 0
        /\ stop = "limit" => Len(all_records) = max_records
        /\ stop = "short" =>
              /\ lastPage < page_size
              /\ max_records = NoLimit \/ Len(all_records) < max_records
        /\ (/\ endpoint.shape \in ListShapes /\ max_records >= 1
            /\ lastPage >= 1 /\ ReceivedTotal >= max_records)
           => stop = "limit"

C31_Witness ==
    /\ ppc = "returned" /\ endpoint.shape \in ListShapes
    /\ max_records >= 1 /\ lastPage >= 1 /\ lastPage < page_size
    /\ Len(pageReqs) >= 2
    /\ ReceivedTotal > max_records
    /\ stop = "limit" /\ Len(all_records) = max_records

\* C32 as stated: a response that is neither an array nor an object with
\* "value" gives no records and ends the pagination.
C32_Original ==
    (endpoint.shape \in {"object", "empty"} /\ Len(pageReqs) >= 1
     /\ ppc # "raised")
    => (ppc = "returned" /\ all_records = <<>> /\ Len(pageReqs) = 1)

\* C32 (amended): an array gives its elements, an object with "value" the
\* elements of that array; an empty response gives no records and ends the
\* pagination; an object without "value" is itself taken as the one record
\* of its page, and such a page ends the pagination only through the
\* max_records or short-page test.
C32_Normalized ==
    /\ (ppc = "returned" /\ endpoint.shape \in ListShapes
        /\ max_records = NoLimit)
       => all_records = FirstRecords(endpoint.n)
    /\ (endpoint.shape = "empty" /\ ppc \in {"loop", "returned"}
        /\ Len(pageReqs) >= 1)
       => (ppc = "returned" /\ all_records = <<>> /\ stop = "empty")
    /\ (endpoint.shape = "object" /\ ppc \in {"loop", "returned"})
       => /\ \A j \in 1..Len(all_records) : all_records[j] = 0
          /\ ppc = "returned" => (stop \in {"limit", "short"}
                                  /\ Len(all_records) >= 1)
          /\ (ppc = "loop" /\ Len(pageReqs) >= 1)
                => (Len(all_records) = Len(pageReqs) /\ page_size = 1)

C32_Witness ==
    /\ endpoint.shape = "object" /\ ppc = "returned" /\ page_size = 1
    /\ Len(pageReqs) >= 2 /\ all_records = <<0, 0>> /\ stop = "limit"

\* C33: a page request that fails ends the call with the error: nothing is
\* returned, the records of the pages fetched before are not handed to the
\* caller and no further page is requested.
C33_FailureStep ==
    [][ppc = "raised" => (ppc' = "raised" /\ pageReqs' = pageReqs
                          /\ consumed' = consumed)]_vars

C33_NoPartial ==
    stop = "error" => (ppc = "raised" /\ consumed = 0)

C33_PageFailureRaises == []C33_NoPartial /\ C33_FailureStep

C33_Witness ==
    /\ ppc = "raised" /\ stop = "error" /\ Len(pageReqs) >= 2
    /\ Len(all_records) >= page_size /\ consumed = 0

\* The endpoints that serve a finite list of records by offset.
ByOffset == endpoint.shape \in ListShapes \cup {"greedy"}

Ended == ppc \in {"returned", "raised"}

C34_RequestBound ==
    /\ max_records >= 1 => Len(pageReqs) <= CeilDiv(max_records, page_size)
    /\ (max_records = NoLimit /\ ByOffset)
          => Len(pageReqs) <= (endpoint.n \div page_size) + 1

\* C34: with max_records = M >= 1 a call issues at most ceil(M / page_size)
\* page requests, whatever the endpoint serves, and ends; without max_records
\* a call over an endpoint that serves a finite list by offset ends, after at
\* most floor(N / page_size) + 1 requests.
C34_Terminates ==
    /\ []C34_RequestBound
    /\ (ppc = "loop" /\ (max_records >= 1 \/ ByOffset)) ~> Ended

C34_Witness ==
    /\ ppc = "returned" /\ max_records >= 2 /\ page_size >= 2
    /\ max_records % page_size # 0
    /\ Len(pageReqs) = CeilDiv(max_records, page_size)
    /\ Len(pageReqs) >= 2 /\ stop = "limit"

\* C35: a call of _request with POST, as create_invoice makes it, sends the
\* POST at most once.
C35_PostOnce ==
    (InRequest /\ method = "POST") => calls <= 1

(***************************************************************************)
(* The webhook endpoint and the invoice processing it schedules            *)
(* (main.py smartsheet_webhook, run_invoice_processing;                    *)
(* business_logic.py process_invoice_request).  The events of all          *)
(* requests are about one row.  A request body is identified by the        *)
(* number of row events it carries.  The value of the Smartsheet-Hmac-     *)
(* SHA256 header is absent, the empty string, or the base64 HMAC-SHA256 of *)
(* some body under some key: [kind, key, body].                            *)
(***************************************************************************)
Keys == {"k1", "k2"}

HookBodies == 1..MaxEvents

NoSignature == [kind |-> "missing", key |-> "", body |-> 0]

EmptySignature == [kind |-> "empty", key |-> "", body |-> 0]

\* base64(hmac.new(key, body, sha256).digest()): equal exactly for equal key
\* and body.  smartsheet_service.py:341-347
Hmac(key, body) == [kind |-> "mac", key |-> key, body |-> body]

Signatures ==
    {NoSignature, EmptySignature} \cup {Hmac(k, b) : k \in Keys, b \in HookBodies}

\* Truth value of the header value: None and "" are false.
SignatureGiven(sig) == sig.kind = "mac"

\* smartsheet_service.py:338-350
verify_webhook_signature(secret, sig, body) ==
    IF secret = "" \/ ~SignatureGiven(sig) THEN FALSE
    ELSE Hmac(secret, body) = sig

\* main.py:241-255
verify_smartsheet_signature(body, sig) ==
    IF webhook_secret = "" THEN TRUE
    ELSE verify_webhook_signature(webhook_secret, sig, body)

\* main.py:315-319: the signature is verified when the header has a value.
Accepted(body, sig) ==
    ~SignatureGiven(sig) \/ verify_smartsheet_signature(body, sig)

Task(h, pos) == [hook |-> h, pos |-> pos]

InitWebhook ==
    /\ RequestIdle
    /\ SyncIdle
    /\ PageIdle
    /\ OverlapIdle
    /\ HistoryIdle
    /\ webhook_secret \in {"", "k1"}
    /\ estado \in {"Facturar", "Facturado"}
    /\ tasks = <<>>
    /\ invoices = 0
    /\ hookLog = <<>>

HookUnchanged == UNCHANGED <<reqVars, syncVars, pageVars, overlapVars, histVars>>

\* main.py:297-375: one request to /webhook/smartsheet.  A rejected
\* signature answers 401; otherwise every row event whose row has Estado
\* "Facturar" adds one background task.
Webhook ==
    /\ Len(hookLog) < MaxHooks
    /\ \E body \in HookBodies, sig \in Signatures :
        LET ok == Accepted(body, sig)
            n == IF ok /\ estado = "Facturar" THEN body ELSE 0
            h == Len(hookLog) + 1
        IN  /\ tasks' = tasks \o [j \in 1..n |-> Task(h, "queued")]
            /\ hookLog' = Append(hookLog,
                                 [sig |-> sig, body |-> body,
                                  status |-> IF ok THEN 200 ELSE 401,
                                  scheduled |-> n])
    /\ UNCHANGED <<webhook_secret, estado, invoices>>
    /\ HookUnchanged

\* The background tasks of one response run one after the other; those of
\* different responses run in executor threads side by side (main.py:196-204).
MayRun(i) ==
    \A j \in 1..(i - 1) : tasks[j].hook = tasks[i].hook => tasks[j].pos = "done"

\* business_logic.py:224-244: the row is read and validated; Estado is not
\* looked at.
TaskExtract ==
    /\ \E i \in 1..Len(tasks) :
        /\ tasks[i].pos = "queued" /\ MayRun(i)
        /\ tasks' = [tasks EXCEPT ![i].pos = "extracted"]
    /\ UNCHANGED <<webhook_secret, estado, invoices, hookLog>>
    /\ HookUnchanged

\* business_logic.py:246-262: client lookup and create_invoice, which
\* creates the invoice or raises.
TaskCreate ==
    /\ \E i \in 1..Len(tasks), ok \in BOOLEAN :
        /\ tasks[i].pos = "extracted"
        /\ tasks' = [tasks EXCEPT ![i].pos = IF ok THEN "created" ELSE "failed"]
        /\ invoices' = IF ok THEN invoices + 1 ELSE invoices
    /\ UNCHANGED <<webhook_secret, estado, hookLog>>
    /\ HookUnchanged

\* business_logic.py:269-300 and smartsheet_service.py:283-295:
\* update_invoice_result rewrites Estado.
TaskUpdate ==
    /\ \E i \in 1..Len(tasks) :
        /\ tasks[i].pos \in {"created", "failed"}
        /\ estado' = IF tasks[i].pos = "created" THEN "Facturado" ELSE "Error"
        /\ tasks' = [tasks EXCEPT ![i].pos = "done"]
    /\ UNCHANGED <<webhook_secret, invoices, hookLog>>
    /\ HookUnchanged

NextWebhook == Webhook \/ TaskExtract \/ TaskCreate \/ TaskUpdate

SpecWebhook == InitWebhook /\ [][NextWebhook]_vars

\* C36: at most one invoice is created for the row, however many events
\* arrive and however their processing interleaves.
C36_OneInvoicePerRow == invoices <= 1

\* C38: with a webhook secret configured, a request schedules processing
\* only when its signature header is the HMAC of its body under the secret.
C38_SignedOnly ==
    webhook_secret # "" =>
        \A j \in 1..Len(hookLog) :
            hookLog[j].scheduled > 0
                => hookLog[j].sig = Hmac(webhook_secret, hookLog[j].body)

(***************************************************************************)
(* The job history (main.py add_to_history).  An entry is identified by    *)
(* the number of the call that made it.                                    *)
(***************************************************************************)
InitHistory ==
    /\ RequestIdle
    /\ SyncIdle
    /\ PageIdle
    /\ OverlapIdle
    /\ HookIdle
    /\ job_history = <<>>
    /\ historyCalls = 0

PopFirst(h) == Tail(h)

\* list.pop(): the last element is removed.  main.py:72
Pop(h) == SubSeq(h, 1, Len(h) - 1)

\* main.py:61-72.  The calls are made on the event loop, one at a time.
add_to_history ==
    /\ historyCalls < MAX_HISTORY + MaxExtraEntries
    /\ historyCalls' = historyCalls + 1
    /\ LET inserted == <<historyCalls + 1>> \o job_history
       IN  job_history' = IF Len(inserted) > MAX_HISTORY THEN Pop(inserted)
                          ELSE inserted
    /\ UNCHANGED <<reqVars, syncVars, pageVars, overlapVars, hookVars>>

SpecHistory == InitHistory /\ [][add_to_history]_vars

C37_Bounded ==
    /\ Len(job_history) <= MAX_HISTORY
    /\ Len(job_history) = Min(historyCalls, MAX_HISTORY)
    /\ \A j \in 1..Len(job_history) : job_history[j] = historyCalls - j + 1

C37_Step ==
    [][historyCalls' = historyCalls + 1 =>
          /\ job_history'[1] = historyCalls'
          /\ \A j \in 2..Len(job_history') : job_history'[j] = job_history[j - 1]
          /\ Len(job_history) = MAX_HISTORY =>
                Len(job_history') = MAX_HISTORY]_vars

\* C37: the history holds at most 100 entries, newest first; a call that
\* would exceed 100 removes exactly the oldest entry and leaves the others
\* as they were, one position further down.
C37_HistoryBounded == []C37_Bounded /\ C37_Step

C37_Witness ==
    /\ historyCalls = MAX_HISTORY + 2
    /\ Len(job_history) = MAX_HISTORY
    /\ job_history[1] = MAX_HISTORY + 2
    /\ job_history[MAX_HISTORY] = 3

====
